---- MODULE Spec2Model ----
(***************************************************************************)
(* A model of seg2io.py: the two SEG-2 readers read_seg2_header and        *)
(* read_seg, run byte by byte over a file.  A byte is a number 0..255, a   *)
(* bytes object a sequence of bytes, the stream a cursor pos into file.    *)
(* One action per block of the reader; the two while-loops over the        *)
(* free-format strings take one action per iteration.                      *)
(***************************************************************************)
EXTENDS Integers, Sequences, FiniteSets, TLC

VARIABLES
    fn,             \* the function called: "read_seg" or "read_seg2_header"
    host,           \* native byte order of the machine numpy runs on
    file,           \* the bytes of the file fname
    desc,           \* how file was built (ghost: the parser never reads it)
    pc,             \* position in the function body
    stream,         \* f: "unopened", "open" or "closed"
    pos,            \* f's cursor
    reads,          \* number of f.read calls made so far
    out,            \* what print has written
    err,            \* the exception that ended the call, or "none"
    result,         \* the returned value, or NoResult
    first_byte, endian, M, N, string_terminator, line_terminator,
    trace_pointers,
    idx,            \* number of pointers whose loop iteration has begun
    ID, NS, format_code, dtype,
    file_header,    \* read_seg2_header's dict
    dicts,          \* the trace_header dict objects, in order of creation
    trace_headers,  \* read_seg's list: references (indexes) into dicts
    traces          \* read_seg's list of decoded arrays

inputs == <<fn, host, file, desc>>
status == <<pc, stream, pos, reads, out, err, result>>
fdvars == <<first_byte, endian, M, N, string_terminator, line_terminator>>
trvars == <<ID, NS, format_code, dtype>>
colls  == <<file_header, dicts, trace_headers, traces>>
vars   == <<inputs, status, fdvars, trace_pointers, idx, trvars, colls>>

-----------------------------------------------------------------------------
(* Bounds of the model. *)
MaxTraces  == 2     \* traces (and stored trace blocks) per file: 1..MaxTraces
MaxSamples == 2     \* the sample count NS of a trace: 1..MaxSamples
MaxEntries == 2     \* strings in a free-format block of the header family

(* Program constants. *)
MagicLE     == 85       \* 0x55
MagicBE     == 58       \* 0x3a
TraceID     == 17442    \* 0x4422
DescLen     == 32       \* size of the file and trace descriptor blocks
Whitespace  == {9, 10, 11, 12, 13, 32}   \* what bytes.split() splits on

Unbound  == 0 - 1       \* a local name with no value yet
NoResult == <<"no result">>

Min(a, b) == IF a < b THEN a ELSE b

-----------------------------------------------------------------------------
(* Python and struct primitives. *)

\* s[a:b] for 0 <= a, clipped at the end of s
Slice(s, a, b) == SubSeq(s, a + 1, Min(b, Len(s)))

Reverse(s) == [i \in 1..Len(s) |-> s[Len(s) + 1 - i]]

RECURSIVE BigEndianValue(_)
BigEndianValue(w) ==
    IF w = <<>> THEN 0
    ELSE 256 * BigEndianValue(SubSeq(w, 1, Len(w) - 1)) + w[Len(w)]

\* unpack(endian + b'H' / b'L' / b'I' / b'B', w)[0] for a w of the right size
Unpack(e, w) == BigEndianValue(IF e = ">" THEN w ELSE Reverse(w))

\* f.read(n) at cursor p: the bytes returned (n < 0 reads to the end)
ReadAt(p, n) ==
    IF n < 0 THEN Slice(file, p, Len(file)) ELSE Slice(file, p, p + n)

\* DATA_FORMAT_CODES and dtype().nbytes
DATA_FORMAT_CODES == {1, 2, 4, 5}
nbytes(code) == CASE code = 1 -> 2 [] code = 2 -> 4 [] code = 4 -> 4 [] code = 5 -> 8

\* bytes.split(): the maximal runs of non-whitespace bytes, in order
RECURSIVE SplitFrom(_, _, _, _)
SplitFrom(bs, i, cur, acc) ==
    IF i > Len(bs)
    THEN IF cur = <<>> THEN acc ELSE Append(acc, cur)
    ELSE IF bs[i] \in Whitespace
         THEN SplitFrom(bs, i + 1, <<>>, IF cur = <<>> THEN acc ELSE Append(acc, cur))
         ELSE SplitFrom(bs, i + 1, Append(cur, bs[i]), acc)

Split(bs) == SplitFrom(bs, 1, <<>>, <<>>)

\* b.decode('utf-8') of ASCII bytes: the code points, which are the byte values
Decode(bs) == bs

\* d[k] = v on an insertion-ordered dict, kept as a sequence of <<key, value>>
DictSet(d, k, v) ==
    IF \E i \in DOMAIN d : d[i][1] = k
    THEN [i \in DOMAIN d |-> IF d[i][1] = k THEN <<k, v>> ELSE d[i]]
    ELSE Append(d, <<k, v>>)

\* np.fromstring(raw, dtype): Len(raw) \div nbytes items in NATIVE byte order;
\* a sample is its dtype and its bit pattern, most significant byte first
FromString(raw, code, native) ==
    [j \in 1..(Len(raw) \div nbytes(code)) |->
        LET w == SubSeq(raw, (j - 1) * nbytes(code) + 1, j * nbytes(code))
        IN  [dtype |-> code, bits |-> IF native = "big" THEN w ELSE Reverse(w)]]

-----------------------------------------------------------------------------
(* The files the readers are run on: the SEG-2 layout, written from a      *)
(* description d = [magic, ptrs, blocks, fhdr, short, cut].                 *)

OrderOf(magic) == IF magic = MagicBE THEN ">" ELSE "<"

RECURSIVE Power256(_)
Power256(k) == IF k = 0 THEN 1 ELSE 256 * Power256(k - 1)

\* struct.pack(e + format, n) for an unsigned field of width bytes
Pack(e, n, width) ==
    LET le == [i \in 1..width |-> (n \div Power256(i - 1)) % 256]
    IN  IF e = ">" THEN Reverse(le) ELSE le

Zeros(n) == [i \in 1..n |-> 0]

RECURSIVE Flatten(_)
Flatten(ss) == IF ss = <<>> THEN <<>> ELSE Head(ss) \o Flatten(Tail(ss))

\* one string of a free-format block: key, whitespace run, value, terminator
\* (sep = <<>> writes a string with no whitespace separator)
Content(e) == e.key \o e.sep \o e.val \o <<e.term>>
IsPair(e) == e.sep # <<>>

\* a free-format block: length-prefixed strings, then a zero length
EncBlock(o, entries) ==
    Flatten([i \in 1..Len(entries) |->
                Pack(o, 2 + Len(Content(entries[i])), 2) \o Content(entries[i])])
    \o Pack(o, 0, 2)

\* bytes per sample stored in the file (for a code outside the table the
\* files carry 4 bytes per sample)
StoredWidth(code) == IF code \in DATA_FORMAT_CODES THEN nbytes(code) ELSE 4

\* the payload of stored block b: n bytes, all different within the file
Payload(b, n) == [j \in 1..n |-> 32 * b + j]

PayloadLen(blk) == blk.ns * StoredWidth(blk.code)

TraceBlock(o, blk, b) ==
    Pack(o, blk.id, 2) \o Pack(o, DescLen + Len(EncBlock(o, blk.hdr)), 2)
    \o Pack(o, PayloadLen(blk), 4) \o Pack(o, blk.ns, 4) \o <<blk.code>>
    \o Zeros(DescLen - 13)
    \o EncBlock(o, blk.hdr) \o <<0>> \o Payload(b, PayloadLen(blk))

TableSize(d) == 4 * Len(d.ptrs) - (IF d.short THEN 4 ELSE 0)

RECURSIVE BlocksLen(_, _)
BlocksLen(d, n) ==
    IF n = 0 THEN 0
    ELSE BlocksLen(d, n - 1) + Len(TraceBlock(OrderOf(d.magic), d.blocks[n], n))

\* the absolute offset of stored block b
Offset(d, b) ==
    DescLen + TableSize(d) + Len(EncBlock(OrderOf(d.magic), d.fhdr)) + BlocksLen(d, b - 1)

FileDescriptorBlock(d) ==
    LET o == OrderOf(d.magic)
    IN  <<d.magic, IF d.magic = MagicBE THEN MagicLE ELSE MagicBE>>
        \o Pack(o, 1, 2) \o Pack(o, TableSize(d), 2) \o Pack(o, Len(d.ptrs), 2)
        \o <<1, 0, 0, 1, 10, 0>> \o Zeros(DescLen - 14)

MkFile(d) ==
    LET o    == OrderOf(d.magic)
        tab  == Flatten([i \in 1..Len(d.ptrs) |-> Pack(o, Offset(d, d.ptrs[i]), 4)])
        full == FileDescriptorBlock(d) \o SubSeq(tab, 1, TableSize(d))
                \o EncBlock(o, d.fhdr)
                \o Flatten([b \in 1..Len(d.blocks) |-> TraceBlock(o, d.blocks[b], b)])
    IN  SubSeq(full, 1, Len(full) - d.cut)

(* The strings the files carry. *)
Pair(k, s, v, t) == [key |-> k, sep |-> s, val |-> v, term |-> t]
Bare(k, t)       == [key |-> k, sep |-> <<>>, val |-> <<>>, term |-> t]

\* keys "A", "B", "C", each with its own whitespace run; values "x" and
\* "x y"; the terminator NUL the file descriptor declares; and a string "AB"
\* with no separator
Keys     == {<<65>>, <<66>>, <<67>>}
SepOf(k) == CASE k = <<65>> -> <<32>> [] k = <<66>> -> <<32, 32>> [] k = <<67>> -> <<9>>
Values   == {<<120>>, <<120, 32, 121>>}
Terms    == {0}
Entries  == {Pair(k, SepOf(k), v, t) : k \in Keys, v \in Values, t \in Terms}
            \cup {Bare(<<65, 66>>, 0)}

SeqsUpTo(S, n) == UNION {[1..k -> S] : k \in 0..n}

\* the header of a trace of the trace family: the first k of two plain strings
TraceEntries == <<Pair(<<65>>, <<32>>, <<120>>, 0), Pair(<<66>>, <<32, 32>>, <<121>>, 0)>>

\* a trace of the trace family: its data format code, its number of strings
Profiles == {[code |-> 1, k |-> 0], [code |-> 2, k |-> 1], [code |-> 5, k |-> 2]}

\* a first byte that is no magic byte, a block ID that is not 0x4422 (0x2244),
\* a data format code outside DATA_FORMAT_CODES
BadMagics == {0}
BadIDs    == {8772}
BadCodes  == {3}

\* pointer tables over n stored blocks: every order of the blocks, and every
\* table that names one block n times
PtrTables(n) ==
    {p \in [1..n -> 1..n] :
        \/ \A i, j \in 1..n : i # j => p[i] # p[j]
        \/ \A i, j \in 1..n : p[i] = p[j]}

NoFault(n) == [kind |-> "none", at |-> n, val |-> 0]

Faults(n) ==
    {[kind |-> "badID", at |-> t, val |-> v] : t \in 1..n, v \in BadIDs}
    \cup {[kind |-> "badCode", at |-> t, val |-> v] : t \in 1..n, v \in BadCodes}
    \cup {[kind |-> "nsDiffer", at |-> t, val |-> 1] : t \in 1..n}
    \cup {[kind |-> k, at |-> n, val |-> 0] :
            k \in {"cutByte", "cutSample", "cutMarker", "shortTable"}}

\* the trace family: n traces, each with a profile, a common sample count,
\* and at most one fault
TraceDesc(magic, prof, ptrs, ns, flt) ==
    LET n    == Len(prof)
        blk(b) == [id   |-> IF flt.kind = "badID" /\ flt.at = b THEN flt.val ELSE TraceID,
                   code |-> IF flt.kind = "badCode" /\ flt.at = b THEN flt.val ELSE prof[b].code,
                   ns   |-> IF flt.kind = "nsDiffer" /\ flt.at = b THEN ns + flt.val ELSE ns,
                   hdr  |-> SubSeq(TraceEntries, 1, prof[b].k)]
        last == blk(n)
    IN  [magic  |-> magic,
         ptrs   |-> ptrs,
         blocks |-> [b \in 1..n |-> blk(b)],
         fhdr   |-> <<>>,
         short  |-> flt.kind = "shortTable",
         cut    |-> CASE flt.kind = "cutByte"   -> 1
                      [] flt.kind = "cutSample" -> StoredWidth(last.code)
                      [] flt.kind = "cutMarker" -> PayloadLen(last) + 2
                      [] OTHER -> 0]

\* files with no fault but, for some, the magic byte
TraceFamily ==
    {TraceDesc(m, pp[1], pp[2], ns, NoFault(Len(pp[1]))) :
        m \in {MagicLE, MagicBE} \cup BadMagics,
        pp \in UNION {[1..n -> Profiles] \X PtrTables(n) : n \in 1..MaxTraces},
        ns \in 1..MaxSamples}

\* files with one fault
FaultFamily ==
    {TraceDesc(m, ppf[1], ppf[2], MaxSamples, ppf[3]) :
        m \in {MagicLE, MagicBE},
        ppf \in UNION {[1..n -> Profiles] \X PtrTables(n) \X Faults(n) : n \in 1..MaxTraces}}

\* the header family: one plain trace; the same free-format block as the file
\* header and as the trace header
HeaderDesc(magic, entries, flt) ==
    [magic  |-> magic,
     ptrs   |-> <<1>>,
     blocks |-> <<[id |-> TraceID, code |-> 4, ns |-> 1, hdr |-> entries]>>,
     fhdr   |-> entries,
     short  |-> flt = "shortTable",
     cut    |-> LET blk == [id |-> TraceID, code |-> 4, ns |-> 1, hdr |-> entries]
                IN  CASE flt = "cutMarker"     -> PayloadLen(blk) + 2
                      [] flt = "cutFileMarker" -> Len(TraceBlock(OrderOf(magic), blk, 1)) + 1
                      [] OTHER -> 0]

HeaderFamily ==
    {HeaderDesc(m, es, flt) :
        m \in {MagicLE, MagicBE} \cup BadMagics,
        es \in SeqsUpTo(Entries, MaxEntries),
        flt \in {"none", "shortTable", "cutMarker", "cutFileMarker"}}

-----------------------------------------------------------------------------
(* The readers. *)

Init ==
    /\ \/ desc \in TraceFamily /\ fn = "read_seg" /\ host \in {"little", "big"}
       \/ desc \in FaultFamily /\ fn = "read_seg" /\ host = "little"
       \/ desc \in HeaderFamily /\ fn \in {"read_seg", "read_seg2_header"} /\ host = "little"
    /\ file = MkFile(desc)
    /\ pc = "start" /\ stream = "unopened" /\ pos = 0 /\ reads = 0
    /\ out = <<>> /\ err = "none" /\ result = NoResult
    /\ first_byte = Unbound /\ endian = "unbound" /\ M = Unbound /\ N = Unbound
    /\ string_terminator = <<>> /\ line_terminator = <<>>
    /\ trace_pointers = <<>> /\ idx = 0
    /\ ID = Unbound /\ NS = Unbound /\ format_code = Unbound /\ dtype = Unbound
    /\ file_header = <<>> /\ dicts = <<>> /\ trace_headers = <<>> /\ traces = <<>>

\* faulty variant: a stream closed by hand on the return path only
ExitWithLeak(e) == IF e = "none" THEN "closed" ELSE "open"

\* leaving the with block, normally or by the exception e: f is closed
ExitWith(e) == "closed"

\* the call ends: with exception e (and no value), or returning r
Finish(e, r) ==
    /\ pc' = "done" /\ err' = e /\ result' = r /\ stream' = ExitWith(e)

Continue(p) == pc' = p /\ UNCHANGED <<err, result, stream>>

\* faulty variant: little-endian unless the first byte says big-endian
SelectEndianDefault(b) == IF b = MagicBE THEN ">" ELSE "<"

\* the byte order chosen from the first byte; no branch binds endian otherwise
SelectEndian(b) ==
    IF b = MagicLE THEN "<" ELSE IF b = MagicBE THEN ">" ELSE "unbound"

\* faulty variant: the assertion compiled away
AssertIDStripped(id) == TRUE

\* assert ID == 0x4422
AssertID(id) == id = TraceID

\* faulty variant: the pointers taken in storage order: the i-th smallest offset
TracePointerSorted(ptrs, i) ==
    CHOOSE v \in {ptrs[j] : j \in DOMAIN ptrs} :
        /\ Cardinality({j \in DOMAIN ptrs : ptrs[j] < v}) < i
        /\ i <= Cardinality({j \in DOMAIN ptrs : ptrs[j] <= v})

\* the pointer the i-th iteration of "for p in trace_pointers" seeks to
TracePointer(ptrs, i) == ptrs[i]

Open ==
    /\ pc = "start"
    /\ stream' = "open" /\ pos' = 0 /\ pc' = "descriptor"
    /\ UNCHANGED <<inputs, reads, out, err, result, fdvars, trace_pointers, idx, trvars, colls>>

\* f.read(32), the magic byte, the revision, M and N, the terminators
FileDescriptor ==
    /\ pc = "descriptor"
    /\ LET block == ReadAt(pos, DescLen)
           n     == Len(block)
           fb    == IF n >= 1 THEN block[1] ELSE Unbound
           en    == IF n >= 1 THEN SelectEndian(fb) ELSE "unbound"
           bound == en # "unbound"
           rev   == IF bound /\ n >= 4 THEN Unpack(en, Slice(block, 2, 4)) ELSE Unbound
           e     == IF n < 1 THEN "struct.error"
                    ELSE IF ~bound THEN "UnboundLocalError"
                    ELSE IF n < 14 THEN "struct.error" ELSE "none"
           term(size, c1, c2) == IF size = 2 THEN <<c1, c2>> ELSE <<c1>>
       IN  /\ pos' = pos + n /\ reads' = reads + 1
           /\ first_byte' = fb /\ endian' = en
           /\ out' = out
                \o (IF n >= 1 /\ ~bound THEN <<"This is not a SEG2 file.">> ELSE <<>>)
                \o (IF rev # Unbound /\ rev # 1 THEN <<"This might not work">> ELSE <<>>)
           /\ M' = IF bound /\ n >= 6 THEN Unpack(en, Slice(block, 4, 6)) ELSE Unbound
           /\ N' = IF bound /\ n >= 8 THEN Unpack(en, Slice(block, 6, 8)) ELSE Unbound
           /\ string_terminator' =
                IF e = "none" THEN term(block[9], block[10], block[11]) ELSE <<>>
           /\ line_terminator' =
                IF e = "none" THEN term(block[12], block[13], block[14]) ELSE <<>>
           /\ IF e = "none" THEN Continue("pointers") ELSE Finish(e, NoResult)
    /\ UNCHANGED <<inputs, trace_pointers, idx, trvars, colls>>

\* f.read(M) and the N pointers unpacked from it
PointerTable ==
    /\ pc = "pointers"
    /\ LET sub     == ReadAt(pos, M)
           word(i) == Slice(sub, 4 * (i - 1), 4 * i)
           short   == {i \in 1..N : Len(word(i)) # 4}
           got     == IF short = {} THEN N
                      ELSE (CHOOSE i \in short : \A j \in short : i <= j) - 1
       IN  /\ pos' = pos + Len(sub) /\ reads' = reads + 1
           /\ trace_pointers' = [i \in 1..got |-> Unpack(endian, word(i))]
           /\ IF short # {} THEN Finish("struct.error", NoResult)
              ELSE IF fn = "read_seg2_header" THEN Continue("file_header")
              ELSE IF N = 0 THEN Continue("stack")
              ELSE Continue("trace")
    /\ UNCHANGED <<inputs, out, fdvars, idx, trvars, colls>>

\* one iteration of "while True" over a free-format block, the cursor at p:
\* the length word, the string, its split
FreeFormatStep(p) ==
    LET offset_word == ReadAt(p, 2)
        offset      == Unpack(endian, offset_word)
        this_string == ReadAt(p + 2, offset - 2)
        parts       == Split(this_string)
    IN  IF Len(offset_word) # 2
        THEN [kind |-> "error", pos |-> p + Len(offset_word), nreads |-> 1]
        ELSE IF offset = 0
        THEN [kind |-> "break", pos |-> p + 2, nreads |-> 1]
        ELSE IF Len(parts) # 2
        THEN [kind |-> "continue", pos |-> p + 2 + Len(this_string), nreads |-> 2]
        ELSE [kind |-> "pair", pos |-> p + 2 + Len(this_string), nreads |-> 2,
              k |-> Decode(parts[1]),
              v |-> Decode(SubSeq(parts[2], 1, Len(parts[2]) - 1))]

\* read_seg2_header: one string of the file header
FileHeaderEntry ==
    /\ pc = "file_header"
    /\ LET s == FreeFormatStep(pos)
       IN  /\ pos' = s.pos /\ reads' = reads + s.nreads
           /\ file_header' = IF s.kind = "pair" THEN DictSet(file_header, s.k, s.v)
                             ELSE file_header
           /\ IF s.kind = "error" THEN Finish("struct.error", NoResult)
              ELSE IF s.kind = "break" THEN Finish("none", [file_header |-> file_header])
              ELSE Continue("file_header")
    /\ UNCHANGED <<inputs, out, fdvars, trace_pointers, idx, trvars,
                   dicts, trace_headers, traces>>

\* read_seg: seek to the next pointer, the trace descriptor block, the dtype
TraceDescriptor ==
    /\ pc = "trace"
    /\ LET p     == TracePointer(trace_pointers, idx + 1)
           block == ReadAt(p, DescLen)
           n     == Len(block)
           id    == IF n >= 2 THEN Unpack(endian, Slice(block, 0, 2)) ELSE ID
           idok  == n >= 2 /\ AssertID(id)
           ns    == IF idok /\ n >= 12 THEN Unpack(endian, Slice(block, 8, 12)) ELSE NS
           fc    == IF idok /\ n >= 13 THEN block[13] ELSE format_code
           known == idok /\ n >= 13 /\ fc \in DATA_FORMAT_CODES
           dt    == IF known THEN fc ELSE dtype
           e     == IF n < 2 THEN "struct.error"
                    ELSE IF ~idok THEN "AssertionError"
                    ELSE IF n < 13 THEN "struct.error"
                    ELSE IF dt = Unbound THEN "UnboundLocalError" ELSE "none"
       IN  /\ idx' = idx + 1
           /\ pos' = p + n /\ reads' = reads + 1
           /\ ID' = id /\ NS' = ns /\ format_code' = fc /\ dtype' = dt
           /\ out' = out \o (IF idok /\ n >= 13 /\ ~known
                             THEN <<"Data type not supported.">> ELSE <<>>)
           /\ dicts' = IF e = "none" THEN Append(dicts, <<>>) ELSE dicts
           /\ IF e = "none" THEN Continue("trace_header") ELSE Finish(e, NoResult)
    /\ UNCHANGED <<inputs, fdvars, trace_pointers, file_header, trace_headers, traces>>

\* read_seg: one string of the trace header; a string that splits in two is
\* put in the dict, and the dict is appended to trace_headers
TraceHeaderEntry ==
    /\ pc = "trace_header"
    /\ LET s == FreeFormatStep(pos)
           h == Len(dicts)
       IN  /\ pos' = s.pos /\ reads' = reads + s.nreads
           /\ dicts' = IF s.kind = "pair"
                       THEN [dicts EXCEPT ![h] = DictSet(dicts[h], s.k, s.v)]
                       ELSE dicts
           /\ trace_headers' = IF s.kind = "pair" THEN Append(trace_headers, h)
                               ELSE trace_headers
           /\ IF s.kind = "error" THEN Finish("struct.error", NoResult)
              ELSE IF s.kind = "break" THEN Continue("payload")
              ELSE Continue("trace_header")
    /\ UNCHANGED <<inputs, out, fdvars, trace_pointers, idx, trvars, file_header, traces>>

\* read_seg: skip one byte, read NS * nbytes bytes, decode and collect them
TracePayload ==
    /\ pc = "payload"
    /\ LET raw == ReadAt(pos + 1, NS * nbytes(dtype))
           ok  == Len(raw) % nbytes(dtype) = 0
       IN  /\ pos' = pos + 1 + Len(raw) /\ reads' = reads + 1
           /\ traces' = IF ok THEN Append(traces, FromString(raw, dtype, host)) ELSE traces
           /\ IF ~ok THEN Finish("ValueError", NoResult)
              ELSE IF idx = Len(trace_pointers) THEN Continue("stack")
              ELSE Continue("trace")
    /\ UNCHANGED <<inputs, out, fdvars, trace_pointers, idx, trvars,
                   file_header, dicts, trace_headers>>

\* read_seg: np.stack(traces), f.close() and the return
Stack ==
    /\ pc = "stack"
    /\ IF traces = <<>> \/ \E i, j \in DOMAIN traces : Len(traces[i]) # Len(traces[j])
       THEN Finish("ValueError", NoResult)
       ELSE Finish("none",
                   [trace_headers |-> [j \in DOMAIN trace_headers |-> dicts[trace_headers[j]]],
                    x_arr |-> traces])
    /\ UNCHANGED <<inputs, pos, reads, out, fdvars, trace_pointers, idx, trvars, colls>>

Next ==
    \/ Open
    \/ FileDescriptor
    \/ PointerTable
    \/ FileHeaderEntry
    \/ TraceDescriptor
    \/ TraceHeaderEntry
    \/ TracePayload
    \/ Stack

Spec == Init /\ [][Next]_vars

-----------------------------------------------------------------------------
(* What the files were built from, for the statements below. *)

Range(f) == {f[i] : i \in DOMAIN f}

\* a string whose key and value hold no whitespace and whose terminator is none
Plain(e) ==
    /\ IsPair(e)
    /\ \A i \in DOMAIN e.val : e.val[i] \notin Whitespace
    /\ e.term \notin Whitespace

DistinctKeys(es) ==
    \A i, j \in DOMAIN es : (i # j /\ IsPair(es[i]) /\ IsPair(es[j])) => es[i].key # es[j].key

\* the (key, value) pairs written into a block, in order
Injected(es) ==
    LET ps == SelectSeq(es, IsPair)
    IN  [i \in DOMAIN ps |-> <<Decode(ps[i].key), Decode(ps[i].val)>>]

\* the file is well formed: magic byte, pointer table, every trace descriptor,
\* every payload, and one sample count for all traces
Valid(d) ==
    /\ d.magic \in {MagicLE, MagicBE}
    /\ ~d.short /\ d.cut = 0
    /\ \A b \in DOMAIN d.blocks :
          /\ d.blocks[b].id = TraceID
          /\ d.blocks[b].code \in DATA_FORMAT_CODES
          /\ d.blocks[b].ns = d.blocks[1].ns

\* the stored block the i-th pointer of the table names
BlockAt(d, i) == d.blocks[d.ptrs[i]]

\* the payload bytes of the block the i-th pointer names
PayloadAt(d, i) == Payload(d.ptrs[i], PayloadLen(BlockAt(d, i)))

FileOrder(d) == IF d.magic = MagicBE THEN "big" ELSE "little"

Returned == pc = "done" /\ err = "none"

-----------------------------------------------------------------------------
(* C1: for a valid file of N traces whose header strings are plain pairs,  *)
(* read_seg returns a list of exactly N header mappings, the i-th holding   *)
(* the entries of trace i, and an array of N rows.                          *)
C1_OneHeaderPerTrace ==
    (pc = "done" /\ fn = "read_seg" /\ Valid(desc)
        /\ \A b \in DOMAIN desc.blocks :
              DistinctKeys(desc.blocks[b].hdr) /\ \A e \in Range(desc.blocks[b].hdr) : Plain(e))
    => /\ err = "none"
       /\ Len(result.trace_headers) = N
       /\ \A i \in 1..N : result.trace_headers[i] = Injected(BlockAt(desc, i).hdr)
       /\ Len(result.x_arr) = N

(* C2: in both readers the first byte selects the byte order (0x55 little, *)
(* 0x3a big) in which every later integer field is decoded: M, N, the       *)
(* pointers and NS come out as the file's writer packed them; with any      *)
(* other first byte the call ends in an exception after the one read of the *)
(* descriptor block: nothing more is read, no field is decoded, nothing is  *)
(* returned.                                                                *)
C2_MagicSelectsOrder ==
    /\ first_byte = MagicLE => endian = "<"
    /\ first_byte = MagicBE => endian = ">"
    /\ first_byte \notin {Unbound, MagicLE, MagicBE} =>
          /\ pc = "done" /\ err # "none" /\ result = NoResult
          /\ reads = 1
          /\ M = Unbound /\ N = Unbound /\ trace_pointers = <<>> /\ ID = Unbound
    /\ M # Unbound => M = TableSize(desc)
    /\ N # Unbound => N = Len(desc.ptrs)
    /\ \A i \in DOMAIN trace_pointers : trace_pointers[i] = Offset(desc, desc.ptrs[i])
    /\ pc \in {"trace_header", "payload"} => ID = TraceID /\ NS = BlockAt(desc, idx).ns

C2_Witness ==
    /\ pc = "done" /\ fn = "read_seg2_header"
    /\ first_byte \in BadMagics /\ err = "UnboundLocalError" /\ reads = 1

(* C3: whenever read_seg has met a data format code outside {1,2,4,5} (and *)
(* said so), the call ends in an exception and returns no array.            *)
C3_UnsupportedCodeAborts ==
    (pc = "done" /\ fn = "read_seg" /\ "Data type not supported." \in Range(out))
    => (err # "none" /\ result = NoResult)

(* C4: once the block ID read at a trace pointer is not 0x4422, read_seg   *)
(* has ended in an exception with nothing returned, whatever the rest of    *)
(* that trace holds and however many traces were decoded before it.         *)
C4_BadIDAborts ==
    (fn = "read_seg" /\ ID \notin {Unbound, TraceID})
    => /\ pc = "done" /\ err = "AssertionError" /\ result = NoResult
       /\ Len(traces) = idx - 1

C4_Witness ==
    /\ pc = "done" /\ ID \in BadIDs /\ err = "AssertionError"
    /\ idx = 2 /\ Len(traces) = 1

(* C5: every trace read_seg returns holds exactly the NS samples its       *)
(* descriptor declares: a payload shorter than NS * width makes the call    *)
(* fail instead.                                                            *)
C5_ShortPayloadFails ==
    (Returned /\ fn = "read_seg")
    => \A i \in DOMAIN result.x_arr : Len(result.x_arr[i]) = BlockAt(desc, i).ns

(* C6: a free-format block written from K pairs with distinct keys (key,   *)
(* whitespace run, value, terminator byte) and a zero length is parsed, at  *)
(* file level and at trace level, to the mapping of exactly those pairs in  *)
(* order, each value as written.                                            *)
C6_FreeFormatRoundTrip ==
    (Returned /\ \A b \in DOMAIN desc.blocks :
                    DistinctKeys(desc.blocks[b].hdr) /\ \A e \in Range(desc.blocks[b].hdr) : IsPair(e))
    => IF fn = "read_seg2_header"
       THEN result.file_header = Injected(desc.fhdr)
       ELSE \A i \in DOMAIN dicts : dicts[i] = Injected(BlockAt(desc, i).hdr)

(* C7: a free-format block with exactly one string that has no whitespace  *)
(* separator is parsed without an exception to the mapping of all its other *)
(* strings, in order, wherever the bad string stands, at file and at trace  *)
(* level.                                                                   *)
C7_MalformedEntrySkipped ==
    (pc = "done" /\ Valid(desc) /\ Len(desc.blocks) = 1
        /\ DistinctKeys(desc.fhdr)
        /\ Cardinality({i \in DOMAIN desc.fhdr : ~IsPair(desc.fhdr[i])}) = 1)
    => /\ err = "none"
       /\ IF fn = "read_seg2_header"
          THEN result.file_header = Injected(desc.fhdr)
          ELSE dicts = <<Injected(desc.blocks[1].hdr)>>

(* C8: the stream is open from the open until the call ends and closed     *)
(* when it has ended, by return or by any exception.                        *)
C8_StreamReleased ==
    /\ pc = "done" => stream = "closed"
    /\ pc \notin {"start", "done"} => stream = "open"

C8_Witness ==
    pc = "done" /\ err = "ValueError" /\ stream = "closed" /\ Len(traces) = 2

(* C9: the samples read_seg returns are the payload bytes read in the byte *)
(* order the first byte of the file selects.                                *)
C9_SamplesInFileOrder ==
    (Returned /\ fn = "read_seg" /\ Valid(desc))
    => \A i \in DOMAIN result.x_arr :
          result.x_arr[i] = FromString(PayloadAt(desc, i), BlockAt(desc, i).code, FileOrder(desc))

(* C10: read_seg takes the pointers in table order: while trace i is read, *)
(* the cursor is inside the block the i-th pointer names and exactly the    *)
(* i-1 traces before it have been collected; for a valid file, row i of the *)
(* returned array is the payload at the i-th pointer.                       *)
C10_PointerOrder ==
    /\ pc = "trace" => Len(traces) = idx
    /\ pc \in {"trace_header", "payload"} =>
          /\ Len(traces) = idx - 1
          /\ pos > Offset(desc, desc.ptrs[idx])
          /\ pos <= Offset(desc, desc.ptrs[idx]) + DescLen + Len(EncBlock(endian, BlockAt(desc, idx).hdr))
    /\ (pc = "done" /\ fn = "read_seg" /\ Valid(desc)) =>
          /\ err = "none"
          /\ Len(result.x_arr) = Len(desc.ptrs)
          /\ \A i \in DOMAIN result.x_arr :
                result.x_arr[i] = FromString(PayloadAt(desc, i), BlockAt(desc, i).code, host)

C10_Witness ==
    /\ Returned /\ fn = "read_seg" /\ Valid(desc)
    /\ desc.ptrs = <<2, 1>> /\ Len(result.x_arr) = 2
    /\ result.x_arr[1] # result.x_arr[2]

====
